---- MODULE Spec2Model ----
(***************************************************************************)
(* A model of the Blender agent's transport client (blender_connection.py) *)
(* and of the tool wrappers that call it (blender_tools.py).               *)
(*                                                                         *)
(* A Python str and a bytes object are sequences of pieces.  A piece is one *)
(* character (one byte), or a run of ASCII characters that is never split: *)
(* a word inside a string, a literal of the source.  sock.recv may cut the *)
(* bytes in flight between any two pieces; a cut inside a run would leave  *)
(* a prefix json.loads rejects as incomplete, as the cut before the run    *)
(* does.  The structural characters of JSON, the digits and the white      *)
(* space are pieces of their own.  The one non-ASCII character of the      *)
(* model, "U+E9", is the two bytes "0xC3", "0xA9" on the wire.             *)
(***************************************************************************)
EXTENDS Integers, Sequences, FiniteSets, TLC

\* ------------------------------------------------------------------ bounds

\* Connections the client may open in one run.
MaxConns == 2

\* ------------------------------------------------------- program constants

\* receive_full_response(self, sock, buffer_size=8192)
buffer_size == 8192

\* A variant of the limit below: one poll more.
max_attempts_and_one == 60 + 1

\* max_attempts = 60 in generate_3d_model_from_text
max_attempts == 60

\* -------------------------------------------------------------- utilities

Min(S) == CHOOSE x \in S : \A y \in S : x <= y

\* ----------------------------------------------------- str <-> bytes (UTF-8)

LeadByte == "0xC3"
ContByte == "0xA9"
NonAscii == "U+E9"

\* The six characters \u00e9, JSON's escape of that character, as one piece.
Escaped == "\\u00e9"

\* str.encode('utf-8'): the text up to its first non-ASCII character, that
\* character's two bytes, and the rest encoded.
RECURSIVE encode(_)
encode(s) ==
    LET at == {i \in 1..Len(s) : s[i] = NonAscii}
    IN  IF at = {} THEN s
        ELSE SubSeq(s, 1, Min(at) - 1) \o <<LeadByte, ContByte>>
             \o encode(SubSeq(s, Min(at) + 1, Len(s)))

\* bytes.decode('utf-8'): [ok |-> FALSE] stands for UnicodeDecodeError (a lead
\* byte with no continuation byte after it, or a stray continuation byte).
\* A well-formed pair of bytes becomes its one character.
decode(b) ==
    LET Kept(c) == c # ContByte
        paired == /\ \A i \in 1..Len(b) :
                        b[i] = LeadByte => (i < Len(b) /\ b[i + 1] = ContByte)
                  /\ \A i \in 1..Len(b) :
                        b[i] = ContByte => (i > 1 /\ b[i - 1] = LeadByte)
    IN  IF paired
        THEN [ok |-> TRUE,
              s  |-> SelectSeq([i \in 1..Len(b) |->
                                  IF b[i] = LeadByte THEN NonAscii ELSE b[i]], Kept)]
        ELSE [ok |-> FALSE, s |-> <<>>]

\* ------------------------------------------------------------- JSON values
\* A JSON value is [t |-> kind, v |-> payload]; the payload is always a
\* sequence: the pieces of a string, the digits of a number, the word of
\* true/false/null, the items of an array, the <<key, value>> pairs of an
\* object in document order (a Python dict keeps insertion order).

JStr(s)  == [t |-> "str", v |-> s]
JNum(d)  == [t |-> "num", v |-> d]
JLit(w)  == [t |-> "lit", v |-> w]
JArr(xs) == [t |-> "arr", v |-> xs]
JObj(ps) == [t |-> "obj", v |-> ps]

JTrue  == JLit(<<"true">>)
JFalse == JLit(<<"false">>)
JNull  == JLit(<<"null">>)

Whitespace   == {" ", "\n", "\t", "\r"}
ControlChars == {"\n", "\t", "\r"}
Digits       == {"0","1","2","3","4","5","6","7","8","9"}

\* ---------------------------------------------------------- json.loads
\* A recursive-descent reading of the text s from position i.  A result is
\* [ok, eof, v, p]: ok with the value v and the next position p, or not ok,
\* eof telling whether the text merely ended too early (a longer text might
\* still parse) or is wrong at a character it has (no longer text parses).

Ok(v, p)  == [ok |-> TRUE,  eof |-> FALSE, v |-> v,     p |-> p]
Bad(eof)  == [ok |-> FALSE, eof |-> eof,   v |-> JNull, p |-> 0]

RECURSIVE SkipWs(_, _)
SkipWs(s, i) ==
    IF i <= Len(s) /\ s[i] \in Whitespace THEN SkipWs(s, i + 1) ELSE i

\* The characters a string's escapes stand for.
Unescape(s) == [k \in 1..Len(s) |-> IF s[k] = Escaped THEN NonAscii ELSE s[k]]

\* s[i] is the opening quote.  Escapes are outside the model's alphabet.
ScanString(s, i) ==
    LET close == {j \in (i + 1)..Len(s) : s[j] = "\""}
        ctrl  == {j \in (i + 1)..Len(s) : s[j] \in ControlChars}
    IN  IF close = {}
        THEN Bad(ctrl = {})
        ELSE LET j == Min(close)
             IN  IF \E k \in ctrl : k < j THEN Bad(FALSE)
                 ELSE Ok(JStr(Unescape(SubSeq(s, i + 1, j - 1))), j + 1)

RECURSIVE DigitsEnd(_, _)
DigitsEnd(s, i) ==
    IF i <= Len(s) /\ s[i] \in Digits THEN DigitsEnd(s, i + 1) ELSE i

\* s[i] is a digit.  A leading 0 is a number on its own.
ScanNumber(s, i) ==
    LET j == IF s[i] = "0" THEN i + 1 ELSE DigitsEnd(s, i)
    IN  Ok(JNum(SubSeq(s, i, j - 1)), j)

RECURSIVE ParseValue(_, _), ParseMembers(_, _, _), ParseElements(_, _, _)

\* i is the position of the value's first character (whitespace skipped).
ParseValue(s, i) ==
    IF i > Len(s) THEN Bad(TRUE)
    ELSE IF s[i] = "\"" THEN ScanString(s, i)
    ELSE IF s[i] \in Digits THEN ScanNumber(s, i)
    ELSE IF s[i] \in {"true", "false", "null"} THEN Ok(JLit(<<s[i]>>), i + 1)
    ELSE IF s[i] = "{"
         THEN LET j == SkipWs(s, i + 1)
              IN  IF j > Len(s) THEN Bad(TRUE)
                  ELSE IF s[j] = "}" THEN Ok(JObj(<<>>), j + 1)
                  ELSE ParseMembers(s, j, <<>>)
    ELSE IF s[i] = "["
         THEN LET j == SkipWs(s, i + 1)
              IN  IF j > Len(s) THEN Bad(TRUE)
                  ELSE IF s[j] = "]" THEN Ok(JArr(<<>>), j + 1)
                  ELSE ParseElements(s, j, <<>>)
    ELSE Bad(FALSE)

\* i is the position where a member's key must start; acc the pairs so far.
ParseMembers(s, i, acc) ==
    IF i > Len(s) THEN Bad(TRUE)
    ELSE IF s[i] # "\"" THEN Bad(FALSE)
    ELSE LET k == ScanString(s, i)
         IN  IF ~k.ok THEN k
             ELSE LET c == SkipWs(s, k.p)
                  IN  IF c > Len(s) THEN Bad(TRUE)
                      ELSE IF s[c] # ":" THEN Bad(FALSE)
                      ELSE LET r == ParseValue(s, SkipWs(s, c + 1))
                           IN  IF ~r.ok THEN r
                               ELSE LET e   == SkipWs(s, r.p)
                                        now == Append(acc, <<k.v.v, r.v>>)
                                    IN  IF e > Len(s) THEN Bad(TRUE)
                                        ELSE IF s[e] = "}" THEN Ok(JObj(now), e + 1)
                                        ELSE IF s[e] = ","
                                             THEN ParseMembers(s, SkipWs(s, e + 1), now)
                                        ELSE Bad(FALSE)

\* i is the position where an array item must start; acc the items so far.
ParseElements(s, i, acc) ==
    LET r == ParseValue(s, i)
    IN  IF ~r.ok THEN r
        ELSE LET e   == SkipWs(s, r.p)
                 now == Append(acc, r.v)
             IN  IF e > Len(s) THEN Bad(TRUE)
                 ELSE IF s[e] = "]" THEN Ok(JArr(now), e + 1)
                 ELSE IF s[e] = ","
                      THEN ParseElements(s, SkipWs(s, e + 1), now)
                 ELSE Bad(FALSE)

\* json.loads(s): [ok |-> FALSE] stands for json.JSONDecodeError.
loads(s) ==
    LET r == ParseValue(s, SkipWs(s, 1))
    IN  IF ~r.ok THEN r
        ELSE IF SkipWs(s, r.p) = Len(s) + 1 THEN r
        ELSE Bad(FALSE)

\* ---------------------------------------------------------- json.dumps
\* Python's default separators: ", " between items and ": " after a key.
\* ensure_ascii (the default of json.dumps) writes a non-ASCII character as
\* its escape; without it the character is written as it is.

Quoted(s, ensure_ascii) ==
    <<"\"">>
    \o [k \in 1..Len(s) |->
          IF ensure_ascii /\ s[k] = NonAscii THEN Escaped ELSE s[k]]
    \o <<"\"">>

RECURSIVE Serialize(_, _), DumpItems(_, _), DumpPairs(_, _)

Serialize(x, ensure_ascii) ==
    IF x.t = "str" THEN Quoted(x.v, ensure_ascii)
    ELSE IF x.t = "num" \/ x.t = "lit" THEN x.v
    ELSE IF x.t = "arr" THEN <<"[">> \o DumpItems(x.v, ensure_ascii) \o <<"]">>
    ELSE <<"{">> \o DumpPairs(x.v, ensure_ascii) \o <<"}">>

DumpItems(xs, ensure_ascii) ==
    IF xs = <<>> THEN <<>>
    ELSE IF Len(xs) = 1 THEN Serialize(xs[1], ensure_ascii)
    ELSE Serialize(xs[1], ensure_ascii) \o <<",", " ">>
         \o DumpItems(Tail(xs), ensure_ascii)

DumpPairs(ps, ensure_ascii) ==
    IF ps = <<>> THEN <<>>
    ELSE LET one == Quoted(ps[1][1], ensure_ascii) \o <<":", " ">>
                    \o Serialize(ps[1][2], ensure_ascii)
         IN  IF Len(ps) = 1 THEN one
             ELSE one \o <<",", " ">> \o DumpPairs(Tail(ps), ensure_ascii)

\* json.dumps(x)
dumps(x) == Serialize(x, TRUE)

\* ------------------------------------------------------- dict operations

\* The positions of key k in an object's pairs.
KeyAt(o, k) == {i \in 1..Len(o.v) : o.v[i][1] = k}

\* k in d
Has(o, k) == KeyAt(o, k) # {}

\* d.get(k, default): json.loads keeps the last of a repeated key.
Get(o, k, default) ==
    IF Has(o, k) THEN o.v[CHOOSE i \in KeyAt(o, k) : \A j \in KeyAt(o, k) : j <= i][2]
    ELSE default

\* A string literal of the source: a text of one piece.
Lit(s) == <<s>>

\* str(x) of a value json.loads produced (scalars only).
PyStr(x) ==
    CASE x.t = "str" -> x.v
      [] x.t = "num" -> x.v
      [] x.t = "lit" /\ x = JNull  -> Lit("None")
      [] x.t = "lit" /\ x = JTrue  -> Lit("True")
      [] x.t = "lit" /\ x = JFalse -> Lit("False")

\* type(x).__name__ of a value json.loads produced.
PyType(x) ==
    CASE x.t = "str" -> Lit("str")
      [] x.t = "num" -> Lit("int")
      [] x.t = "arr" -> Lit("list")
      [] x.t = "lit" /\ x = JNull -> Lit("NoneType")
      [] x.t = "lit" /\ x # JNull -> Lit("bool")

\* bool(x): None, False, 0, "", [] and {} are falsy.
Truthy(x) ==
    CASE x.t = "lit" -> x = JTrue
      [] x.t = "num" -> x.v # <<"0">>
      [] OTHER       -> x.v # <<>>

IsStr(x, s) == x.t = "str" /\ x.v = s

EmptyDict == JObj(<<>>)

\* ------------------------------------------------------------ the peer
\* The addon's responses: {status, result?, message?}.

SuccessResponse(result) ==
    JObj(<< <<Lit("status"), JStr(Lit("success"))>>,
            <<Lit("result"), result>> >>)

ErrorResponse(message) ==
    JObj(<< <<Lit("status"), JStr(Lit("error"))>>,
            <<Lit("message"), JStr(message)>> >>)

\* The bytes of a response document: non-ASCII characters escaped, as
\* json.dumps writes them, or as their UTF-8 bytes, as JSON also allows.
Wire(v) == encode(dumps(v))

WireRaw(v) == encode(Serialize(v, FALSE))

\* ------------------------------------------------------- send_command's ends
\* How a send_command call ends: a returned value, or a raised exception of
\* a type with a message.  cause names the event that ended the call.

NoOutcome == [kind |-> "none", etype |-> "", val |-> JNull, cause |-> ""]

Returned(v) == [kind |-> "ret", etype |-> "", val |-> v, cause |-> "response"]

Raised(etype, msg, cause) ==
    [kind |-> "exc", etype |-> etype, val |-> JStr(msg), cause |-> cause]

\* Variants of the except clauses, to try the properties against: the last
\* handler keeps the socket; no handler resets it.
HandlerResetsNamedOnly(etype) == etype \in {"timeout", "ConnectionError"}

HandlerResetsNever(etype) == FALSE

\* A variant whose timeout handler keeps the socket.
HandlerResetsNotTimeout(etype) == etype \notin {"JSONDecodeError", "timeout"}

\* The except clauses of send_command: what an exception of type etype with
\* message msg, raised inside the try block, becomes, and whether the handler
\* sets self.socket = None.
HandlerResets(etype) == etype # "JSONDecodeError"

HandlerMessage(etype, msg) ==
    CASE etype = "timeout" ->
           Lit("Timeout waiting for Blender response - try simplifying your request")
      [] etype = "ConnectionError" -> Lit("Connection to Blender lost: ") \o msg
      [] etype = "JSONDecodeError" -> Lit("Invalid response from Blender: ") \o msg
      [] OTHER -> Lit("Communication error with Blender: ") \o msg

\* An end of receive_full_response or of the lines after it: data returned
\* to the caller, or an exception raised.
Data(b)          == [ok |-> TRUE,  data |-> b,    etype |-> "",    msg |-> <<>>]
Throw(etype, m)  == [ok |-> FALSE, data |-> <<>>, etype |-> etype, msg |-> m]

\* After chunks.append(chunk): the test json.loads(data.decode('utf-8')).
\* "more" is the continue of the JSONDecodeError handler.
OnChunk(data) ==
    LET d == decode(data)
    IN  IF ~d.ok
        THEN "raise"
        ELSE IF loads(d.s).ok THEN "return" ELSE "more"

\* The code after the receive loop (a timeout, or an empty chunk after data).
AfterLoop(chunks) ==
    IF chunks # <<>>
    THEN LET d == decode(chunks)
         IN  IF ~d.ok
             THEN Throw("UnicodeDecodeError",
                        Lit("'utf-8' codec can't decode byte 0xc3: unexpected end of data"))
             ELSE IF loads(d.s).ok THEN Data(chunks)
             ELSE Throw("Exception", Lit("Incomplete JSON response received"))
    ELSE Throw("Exception", Lit("No data received"))

\* send_command from the return of receive_full_response on: parse the
\* response, raise on status "error", return the result.
Respond(data) ==
    LET d == decode(data)
        r == loads(d.s)
    IN  IF ~d.ok
        THEN Throw("UnicodeDecodeError",
                   Lit("'utf-8' codec can't decode byte 0xc3: unexpected end of data"))
        ELSE IF ~r.ok THEN Throw("JSONDecodeError", Lit("Expecting value"))
        ELSE IF r.v.t # "obj"
             THEN Throw("AttributeError",
                        <<"'">> \o PyType(r.v) \o Lit("' object has no attribute 'get'"))
        ELSE IF IsStr(Get(r.v, Lit("status"), JNull), Lit("error"))
             THEN Throw("Exception",
                        PyStr(Get(r.v, Lit("message"),
                                  JStr(Lit("Unknown error from Blender")))))
        ELSE [ok |-> TRUE, data |-> data, etype |-> "", msg |-> <<>>]

\* The value send_command returns for a response that did not raise.
ResultOf(data) == Get(loads(decode(data).s).v, Lit("result"), EmptyDict)

\* A buffer no further bytes can complete: it decodes, and json.loads rejects
\* it at a character it holds.
Dead(b) ==
    LET d == decode(b)
    IN  d.ok /\ ~loads(d.s).ok /\ ~loads(d.s).eof

\* ------------------------------------------------------------------ state

VARIABLES
    socket,       \* self.socket: 0 for None, else the connection it names
    nconn,        \* connections opened so far (socket.socket() calls that connected)
    stimeout,     \* whether settimeout(15.0) has been called on the socket
    peerOpen,     \* whether the peer still holds its end of the connection
    wire,         \* bytes the peer has written that the client has not yet read
    owed,         \* requests the peer has received and not yet answered
    outstanding,  \* requests sent on the socket whose response was not yet read
    cpc,          \* where send_command is: idle, enter, send, recv, done
    command,      \* command_type and params of the call
    request,      \* the bytes the call in progress has passed to sendall
    chunks,       \* b''.join(chunks) of receive_full_response
    outcome,      \* how the last send_command ended
    fresh,        \* whether the call in progress opened its own connection
    prevFault,    \* whether the previous call ended on a timeout or connection error
    past,         \* so far: a send_command raised, one returned, disconnect dropped a socket
    sends,        \* sendall calls the call in progress has made
    answer,       \* the response the peer wrote for the request in progress
    noisy,        \* whether the peer also wrote bytes that are no response
    received,     \* what receive_full_response returned to the call in progress
    blender_connection,  \* whether the module global holds a BlenderConnection
    tool,         \* the wrapper being run ("none" before the first)
    tpc,          \* where the wrapper is
    args,         \* the keyword arguments of the wrapper call
    loc,          \* the wrapper's local variables
    tret,         \* how the wrapper ended
    log           \* the command types the wrapper has passed to send_command

connVars == <<socket, nconn, stimeout, peerOpen, wire, owed, outstanding>>
callVars == <<cpc, command, request, chunks, outcome, fresh, prevFault, past,
              sends, answer, noisy, received>>
toolVars == <<blender_connection, tool, tpc, args, loc, tret, log>>
vars     == <<connVars, callVars, toolVars>>

\* The ends of a call that are timeouts and connection errors.
FaultCauses == {"connect", "send_timeout", "send_error",
                "recv_timeout", "recv_closed", "recv_reset"}

NoCommand == [type |-> "", params |-> EmptyDict]

NoAnswer == [val |-> JNull, text |-> <<>>]

NoLocals ==
    [status |-> JNull, job_id |-> JNull, subscription_key |-> JNull,
     request_id |-> JNull, attempt |-> 0, is_complete |-> FALSE,
     status_result |-> JNull,
     connected |-> FALSE, ph_status |-> JNull, h3d_status |-> JNull,
     available_tools |-> <<>>]

NoPast == [raised |-> FALSE, returned |-> FALSE, disconnected |-> FALSE]

NoReturn == [kind |-> "none", etype |-> "", val |-> JNull]

\* The module globals of blender_tools before set_blender_connection; the
\* other variables are those of the BlenderConnection it will be given.
Init ==
    /\ socket = 0 /\ nconn = 0 /\ stimeout = FALSE /\ peerOpen = FALSE
    /\ wire = <<>> /\ owed = 0 /\ outstanding = 0
    /\ cpc = "idle" /\ command = NoCommand /\ chunks = <<>>
    /\ request = <<>> /\ past = NoPast
    /\ outcome = NoOutcome /\ fresh = FALSE /\ prevFault = FALSE /\ sends = 0
    /\ answer = NoAnswer /\ noisy = FALSE /\ received = <<>>
    /\ blender_connection = FALSE
    /\ tool = "none" /\ tpc = "idle" /\ args = EmptyDict /\ loc = NoLocals
    /\ tret = NoReturn /\ log = <<>>

\* ---------------------------------------------------------- the connection

\* self.socket = None: the connection is no longer reachable from the client.
Forget ==
    /\ socket' = 0 /\ stimeout' = FALSE /\ peerOpen' = FALSE
    /\ wire' = <<>> /\ owed' = 0 /\ outstanding' = 0
    /\ UNCHANGED nconn

\* connect(), socket None: a new socket that connected.
ConnectOk ==
    /\ nconn < MaxConns
    /\ nconn' = nconn + 1 /\ socket' = nconn + 1
    /\ stimeout' = FALSE /\ peerOpen' = TRUE
    /\ wire' = <<>> /\ owed' = 0 /\ outstanding' = 0

\* The call ends with outcome o; reset tells whether self.socket is set to
\* None.  w is what is left in flight and n the requests left unanswered
\* when the socket is kept.
EndCallWith(o, reset, w, n) ==
    /\ cpc' = "done"
    /\ outcome' = o
    /\ prevFault' = (o.kind = "exc" /\ o.cause \in FaultCauses)
    /\ past' = [past EXCEPT !.raised = @ \/ o.kind = "exc",
                             !.returned = @ \/ o.kind = "ret"]
    /\ IF reset THEN Forget
       ELSE /\ wire' = w /\ outstanding' = n
            /\ UNCHANGED <<socket, nconn, stimeout, peerOpen, owed>>

EndCall(o, reset) == EndCallWith(o, reset, wire, outstanding)

\* An exception raised inside send_command's try block reaches its handler.
CaughtWith(etype, msg, cause, w, n) ==
    EndCallWith(Raised("Exception", HandlerMessage(etype, msg), cause),
                HandlerResets(etype), w, n)

\* An exception raised inside send_command's try block reaches its handler.
Caught(etype, msg, cause) ==
    CaughtWith(etype, msg, cause, wire, outstanding)

\* command = {"type": command_type, "params": params or {}}, and the bytes
\* json.dumps(command).encode('utf-8') that sendall is given.
Request(c) ==
    encode(dumps(JObj(<< <<Lit("type"), JStr(Lit(c.type))>>,
                         <<Lit("params"),
                           IF Truthy(c.params) THEN c.params ELSE EmptyDict>> >>)))

\* send_command up to the try block: connect when there is no socket.
Enter ==
    /\ cpc = "enter"
    /\ UNCHANGED <<command, request, chunks, sends, answer, noisy, received, toolVars>>
    /\ \/ /\ socket # 0
          /\ cpc' = "send" /\ fresh' = FALSE
          /\ UNCHANGED <<connVars, outcome, prevFault, past>>
       \/ /\ socket = 0
          /\ ConnectOk
          /\ cpc' = "send" /\ fresh' = TRUE
          /\ UNCHANGED <<outcome, prevFault, past>>
       \/ /\ socket = 0
          /\ fresh' = FALSE
          /\ EndCall(Raised("ConnectionError", Lit("Not connected to Blender"),
                            "connect"), FALSE)

\* self.socket.sendall(...), then settimeout(15.0).
Sendall ==
    /\ cpc = "send"
    /\ UNCHANGED <<command, fresh, noisy, received, toolVars>>
    /\ sends' = sends + 1
    /\ \/ /\ cpc' = "recv" /\ chunks' = <<>>
          /\ stimeout' = TRUE
          /\ owed' = IF peerOpen THEN owed + 1 ELSE owed
          /\ outstanding' = outstanding + 1
          /\ answer' = NoAnswer
          /\ request' = Request(command)
          /\ UNCHANGED <<socket, nconn, peerOpen, wire, outcome, prevFault, past>>
       \/ /\ stimeout
          /\ Caught("timeout", Lit("timed out"), "send_timeout")
          /\ UNCHANGED <<chunks, answer, request>>
       \/ /\ Caught("ConnectionError", Lit("[Errno 32] Broken pipe"), "send_error")
          /\ UNCHANGED <<chunks, answer, request>>

\* sock.recv(buffer_size) returns the first n bytes in flight.
RecvData(n) ==
    /\ cpc = "recv"
    /\ n \in 1..Len(wire) /\ n <= buffer_size
    /\ UNCHANGED <<command, request, fresh, sends, answer, noisy, toolVars>>
    /\ LET data == chunks \o SubSeq(wire, 1, n)
           rest == SubSeq(wire, n + 1, Len(wire))
           test == OnChunk(data)
           r    == Respond(data)
       IN  \/ /\ test = "more"
              /\ chunks' = IF Dead(chunks) THEN chunks ELSE data
              /\ wire' = rest
              /\ UNCHANGED <<socket, nconn, stimeout, peerOpen, owed, outstanding,
                             cpc, outcome, prevFault, past, received>>
           \/ /\ test = "raise"
              /\ chunks' = data /\ received' = <<>>
              /\ CaughtWith("UnicodeDecodeError",
                            Lit("'utf-8' codec can't decode byte 0xc3: unexpected end of data"),
                            "decode", rest, outstanding)
           \/ /\ test = "return" /\ r.ok
              /\ chunks' = data /\ received' = data
              /\ EndCallWith(Returned(ResultOf(data)), FALSE, rest, outstanding - 1)
           \/ /\ test = "return" /\ ~r.ok
              /\ chunks' = data /\ received' = data
              /\ CaughtWith(r.etype, r.msg, "response", rest, outstanding - 1)

\* What the code after the receive loop makes of the bytes gathered so far.
LoopEnds(cause) ==
    LET a == AfterLoop(chunks)
        r == Respond(a.data)
    IN  IF ~a.ok
        THEN /\ received' = <<>>
             /\ Caught(a.etype, a.msg, cause)
        ELSE /\ received' = a.data
             /\ IF r.ok
                THEN EndCallWith(Returned(ResultOf(a.data)), FALSE, wire, outstanding - 1)
                ELSE CaughtWith(r.etype, r.msg, cause, wire, outstanding - 1)

\* sock.recv returns b'': the peer closed and nothing is left in flight.
RecvClosed ==
    /\ cpc = "recv" /\ wire = <<>> /\ ~peerOpen
    /\ UNCHANGED <<command, request, chunks, fresh, sends, answer, noisy, toolVars>>
    /\ IF chunks = <<>>
       THEN /\ received' = <<>>
            /\ Caught("Exception",
                      Lit("Connection closed before receiving any data"),
                      "recv_closed")
       ELSE LoopEnds("recv_closed")

\* sock.recv raises socket.timeout: nothing arrived for 15 seconds.
RecvTimeout ==
    /\ cpc = "recv" /\ wire = <<>>
    /\ UNCHANGED <<command, request, chunks, fresh, sends, answer, noisy, toolVars>>
    /\ LoopEnds("recv_timeout")

\* sock.recv raises ConnectionResetError.
RecvReset ==
    /\ cpc = "recv"
    /\ UNCHANGED <<command, request, chunks, fresh, sends, answer, noisy, toolVars>>
    /\ received' = <<>>
    /\ Caught("ConnectionError", Lit("[Errno 104] Connection reset by peer"),
              "recv_reset")

\* ------------------------------------------------------- the peer's answers
\* What the peer may write in answer to a command: the response document it
\* means (val) and the bytes it writes (text).

Doc(v) == [val |-> v, text |-> Wire(v)]

\* A response whose non-ASCII characters are written as UTF-8 bytes.
DocRaw(v) == [val |-> v, text |-> WireRaw(v)]

\* A response followed by a line end.
DocLine(v) == [val |-> v, text |-> Wire(v) \o <<"\n">>]

\* The first n bytes of a response, and then nothing.
Cut(v, n) == [val |-> JNull, text |-> SubSeq(Wire(v), 1, n)]

Pair(k, v) == <<Lit(k), v>>
Text(s) == JStr(Lit(s))

BareSuccess == JObj(<<Pair("status", Text("success"))>>)

\* Answers any command may get.
CommonAnswers ==
    << Doc(ErrorResponse(Lit("boom"))),
       Doc(JObj(<<Pair("status", Text("error"))>>)),
       Doc(BareSuccess),
       Cut(BareSuccess, 6) >>

Named(n) == SuccessResponse(JObj(<<Pair("name", JStr(n))>>))

CreateObjectAnswers ==
    << Doc(Named(Lit("Box1"))),
       DocLine(Named(Lit("Box1"))),
       Doc(Named(<<"Caf", NonAscii>>)),
       DocRaw(Named(<<"Caf", NonAscii>>)),
       Doc(JNum(<<"1", "2">>)) >> \o CommonAnswers

PlainAnswers ==
    << Doc(SuccessResponse(EmptyDict)) >> \o CommonAnswers

StatusAnswers ==
    << Doc(SuccessResponse(JObj(<<Pair("enabled", JTrue),
                                  Pair("message", Text("on"))>>))),
       Doc(SuccessResponse(JObj(<<Pair("enabled", JFalse),
                                  Pair("message", Text("off"))>>))),
       Doc(SuccessResponse(JObj(<<Pair("enabled", JFalse)>>))),
       Doc(SuccessResponse(JObj(<<Pair("message", Text("off"))>>))),
       Doc(ErrorResponse(Lit("boom"))) >>

PolyHavenAnswers ==
    << Doc(SuccessResponse(EmptyDict)),
       Doc(SuccessResponse(JObj(<<Pair("error", Text("boom"))>>))),
       Doc(SuccessResponse(JObj(<<Pair("success", JTrue)>>))),
       Doc(ErrorResponse(Lit("boom"))) >>

CreateJobAnswers ==
    << Doc(SuccessResponse(JObj(<<Pair("uuid", Text("u1")),
              Pair("jobs", JObj(<<Pair("subscription_key", Text("k1"))>>))>>))),
       Doc(SuccessResponse(JObj(<<Pair("uuid", Text("u1"))>>))),
       Doc(SuccessResponse(JObj(<<Pair("request_id", Text("r1"))>>))),
       Doc(SuccessResponse(JObj(<<Pair("error", Text("boom"))>>))),
       Doc(SuccessResponse(EmptyDict)),
       Doc(ErrorResponse(Lit("boom"))) >>

PollAnswers ==
    << Doc(SuccessResponse(JObj(<<Pair("status_list",
              JArr(<<Text("Done"), Text("Done")>>))>>))),
       Doc(SuccessResponse(JObj(<<Pair("status_list",
              JArr(<<Text("Done"), Text("Failed")>>))>>))),
       Doc(SuccessResponse(JObj(<<Pair("status_list",
              JArr(<<Text("Done"), Text("Generating")>>))>>))),
       Doc(SuccessResponse(JObj(<<Pair("status_list", JArr(<<>>))>>))),
       Doc(SuccessResponse(JObj(<<Pair("status", Text("COMPLETED"))>>))),
       Doc(SuccessResponse(JObj(<<Pair("status", Text("IN_PROGRESS"))>>))),
       Doc(SuccessResponse(JObj(<<Pair("status", Text("IN_QUEUE"))>>))),
       Doc(SuccessResponse(JObj(<<Pair("status", Text("FAILED"))>>))),
       Doc(SuccessResponse(EmptyDict)),
       Doc(ErrorResponse(Lit("boom"))) >>

ImportAnswers ==
    << Doc(SuccessResponse(JObj(<<Pair("succeed", JTrue)>>))),
       Doc(SuccessResponse(JObj(<<Pair("succeed", JFalse),
                                  Pair("error", Text("boom"))>>))),
       Doc(SuccessResponse(EmptyDict)),
       Doc(ErrorResponse(Lit("boom"))) >>

\* The answers the peer may give to a command, by its type.
Catalogue(type) ==
    CASE type = "create_object" -> CreateObjectAnswers
      [] type \in {"delete_object", "execute_code"} -> PlainAnswers
      [] type \in {"get_polyhaven_status", "get_hyper3d_status"} -> StatusAnswers
      [] type \in {"get_polyhaven_categories", "search_polyhaven_assets",
                   "download_polyhaven_asset", "set_texture"} -> PolyHavenAnswers
      [] type = "create_rodin_job" -> CreateJobAnswers
      [] type = "poll_rodin_job_status" -> PollAnswers
      [] type = "import_generated_asset" -> ImportAnswers
      [] OTHER -> << >>

\* Bytes that are no response and never become one.
NoiseBytes == <<"{">>

\* The peer writes its answer to a request it has received (a peer that
\* has written noise writes no answer after it).
PeerAnswer(i) ==
    /\ socket # 0 /\ peerOpen /\ owed > 0 /\ ~noisy
    /\ i \in 1..Len(Catalogue(command.type))
    /\ wire' = wire \o Catalogue(command.type)[i].text
    /\ owed' = owed - 1
    /\ answer' = Catalogue(command.type)[i]
    /\ UNCHANGED <<socket, nconn, stimeout, peerOpen, outstanding, cpc, command,
                   request, chunks, outcome, fresh, prevFault, past, sends,
                   noisy, received, toolVars>>

\* The peer writes a byte that is no response, once the last was read.
PeerNoise ==
    /\ socket # 0 /\ peerOpen /\ owed > 0 /\ wire = <<>>
    /\ wire' = NoiseBytes
    /\ noisy' = TRUE
    /\ UNCHANGED <<socket, nconn, stimeout, peerOpen, owed, outstanding, cpc,
                   command, request, chunks, outcome, fresh, prevFault, past,
                   sends, answer, received, toolVars>>

\* The peer closes its end of the connection.
PeerClose ==
    /\ socket # 0 /\ peerOpen
    /\ peerOpen' = FALSE /\ owed' = 0
    /\ UNCHANGED <<socket, nconn, stimeout, wire, outstanding, callVars, toolVars>>

\* ------------------------------------------------------ Python formatting

\* sep.join(xs) for a list of strings
RECURSIVE Join(_, _)
Join(sep, xs) ==
    IF xs = <<>> THEN <<>>
    ELSE IF Len(xs) = 1 THEN xs[1]
    ELSE xs[1] \o sep \o Join(sep, Tail(xs))

\* repr(x), as an f-string shows a list or a dict
RECURSIVE PyRepr(_), ReprItems(_), ReprPairs(_)
PyRepr(x) ==
    CASE x.t = "str" -> <<"'">> \o x.v \o <<"'">>
      [] x.t = "arr" -> <<"[">> \o Join(<<",", " ">>, ReprItems(x.v)) \o <<"]">>
      [] x.t = "obj" -> <<"{">> \o Join(<<",", " ">>, ReprPairs(x.v)) \o <<"}">>
      [] OTHER -> PyStr(x)

ReprItems(xs) ==
    IF xs = <<>> THEN <<>> ELSE <<PyRepr(xs[1])>> \o ReprItems(Tail(xs))

ReprPairs(ps) ==
    IF ps = <<>> THEN <<>>
    ELSE << <<"'">> \o ps[1][1] \o <<"'", ":", " ">> \o PyRepr(ps[1][2]) >>
         \o ReprPairs(Tail(ps))

\* ------------------------------------------------------------ the wrappers
\* A wrapper runs from one send_command call to the next.  Each wrapper is an
\* operator of (pc, a, l, o): where it is, its keyword arguments, its locals
\* and how the send_command call it waited for ended; it gives the step the
\* wrapper takes: the next call, a return, or an exception leaving it.

CallStep(type, params, label, l) ==
    [go |-> "call", cmd |-> [type |-> type, params |-> params], tpc |-> label,
     loc |-> l, ret |-> NoReturn]

ReturnStep(v, l) ==
    [go |-> "end", cmd |-> NoCommand, tpc |-> "finished", loc |-> l,
     ret |-> [kind |-> "ret", etype |-> "", val |-> v]]

RaiseStep(etype, msg, l) ==
    [go |-> "end", cmd |-> NoCommand, tpc |-> "finished", loc |-> l,
     ret |-> [kind |-> "exc", etype |-> etype, val |-> JStr(msg)]]

\* No try statement around the call: the exception of send_command leaves
\* the wrapper.
Propagate(o, l) == RaiseStep(o.etype, o.val.v, l)

\* A keyword argument (None when not supplied).
Arg(a, k) == Get(a, Lit(k), JNull)

\* A variant with "is not None" for the truthiness tests, to try the
\* properties against.
SuppliedNotNone(a, ks) ==
    LET Given(k) == Arg(a, k) # JNull
        kept == SelectSeq(ks, Given)
    IN  [i \in 1..Len(kept) |-> Pair(kept[i], Arg(a, kept[i]))]

\* The pairs of params for the arguments among ks that are truthy.
RECURSIVE Supplied(_, _)
Supplied(a, ks) ==
    IF ks = <<>> THEN <<>>
    ELSE (IF Truthy(Arg(a, ks[1])) THEN <<Pair(ks[1], Arg(a, ks[1]))>> ELSE <<>>)
         \o Supplied(a, Tail(ks))

create_object(pc, a, l, o) ==
    IF pc = "start"
    THEN CallStep("create_object",
                  JObj(<<Pair("type", Arg(a, "type"))>>
                       \o Supplied(a, <<"name", "location", "rotation", "scale">>)),
                  "call", l)
    ELSE IF o.kind = "exc" THEN Propagate(o, l)
    ELSE IF ~Has(o.val, Lit("name")) THEN RaiseStep("KeyError", Lit("'name'"), l)
    ELSE ReturnStep(JStr(Lit("Created ") \o PyStr(Arg(a, "type"))
                         \o Lit(" object: ")
                         \o PyStr(Get(o.val, Lit("name"), JNull))), l)

delete_object(pc, a, l, o) ==
    IF pc = "start"
    THEN CallStep("delete_object", JObj(<<Pair("name", Arg(a, "name"))>>), "call", l)
    ELSE IF o.kind = "exc" THEN Propagate(o, l)
    ELSE ReturnStep(JStr(Lit("Deleted object: ") \o PyStr(Arg(a, "name"))), l)

execute_blender_code(pc, a, l, o) ==
    IF pc = "start"
    THEN CallStep("execute_code", JObj(<<Pair("code", Arg(a, "code"))>>), "call", l)
    ELSE IF o.kind = "exc" THEN Propagate(o, l)
    ELSE ReturnStep(Text("Code executed successfully"), l)

\* BlenderConnection.get_polyhaven_status / get_hyper3d_status: the result,
\* or {"enabled": False, "message": str(e)} when send_command raised.
StatusFrom(o) ==
    IF o.kind = "exc"
    THEN JObj(<<Pair("enabled", JFalse), Pair("message", o.val)>>)
    ELSE o.val

\* A variant of the test below: a status without "enabled" passes.
DisabledUnlessSilent(status) == ~Truthy(Get(status, Lit("enabled"), JTrue))

\* if not status.get("enabled", False): return status.get("message", default)
Disabled(status) == ~Truthy(Get(status, Lit("enabled"), JFalse))

PolyHavenOff == Text("PolyHaven integration is not enabled in Blender.")

\* "Error: {result['error']}"
ErrorOf(result) == JStr(Lit("Error: ") \o PyStr(Get(result, Lit("error"), JNull)))

\* The listing loops of the two wrappers below run over the categories and
\* the assets of the result; the peer's answers carry none.
get_polyhaven_categories(pc, a, l, o) ==
    IF pc = "start" THEN CallStep("get_polyhaven_status", JNull, "status", l)
    ELSE IF pc = "status"
    THEN LET ph_status == StatusFrom(o)
         IN  IF Disabled(ph_status)
             THEN ReturnStep(Get(ph_status, Lit("message"), PolyHavenOff),
                             [l EXCEPT !.status = ph_status])
             ELSE CallStep("get_polyhaven_categories",
                           JObj(<<Pair("asset_type", Arg(a, "asset_type"))>>),
                           "call", [l EXCEPT !.status = ph_status])
    ELSE IF o.kind = "exc" THEN Propagate(o, l)
    ELSE IF Has(o.val, Lit("error")) THEN ReturnStep(ErrorOf(o.val), l)
    ELSE ReturnStep(JStr(Lit("Categories for ") \o PyStr(Arg(a, "asset_type"))
                         \o Lit(":\n\n")), l)

search_polyhaven_assets(pc, a, l, o) ==
    IF pc = "start" THEN CallStep("get_polyhaven_status", JNull, "status", l)
    ELSE IF pc = "status"
    THEN LET ph_status == StatusFrom(o)
         IN  IF Disabled(ph_status)
             THEN ReturnStep(Get(ph_status, Lit("message"), PolyHavenOff),
                             [l EXCEPT !.status = ph_status])
             ELSE CallStep("search_polyhaven_assets",
                           JObj(<<Pair("asset_type", Arg(a, "asset_type"))>>
                                \o Supplied(a, <<"categories">>)),
                           "call", [l EXCEPT !.status = ph_status])
    ELSE IF o.kind = "exc" THEN Propagate(o, l)
    ELSE IF Has(o.val, Lit("error")) THEN ReturnStep(ErrorOf(o.val), l)
    ELSE ReturnStep(JStr(
           Lit("Found ")
           \o PyStr(Get(o.val, Lit("total_count"), JNum(<<"0">>)))
           \o Lit(" assets")
           \o (IF Truthy(Arg(a, "categories"))
               THEN Lit(" in categories: ") \o PyStr(Arg(a, "categories"))
               ELSE <<>>)
           \o Lit("\nShowing ")
           \o PyStr(Get(o.val, Lit("returned_count"), JNum(<<"0">>)))
           \o Lit(" assets:\n\n")), l)

\* ", ".join(result.get(k, []))
Joined(result, k) ==
    Join(<<",", " ">>, [i \in 1..Len(Get(result, Lit(k), JArr(<<>>)).v) |->
                           Get(result, Lit(k), JArr(<<>>)).v[i].v])

download_polyhaven_asset(pc, a, l, o) ==
    IF pc = "start" THEN CallStep("get_polyhaven_status", JNull, "status", l)
    ELSE IF pc = "status"
    THEN LET ph_status == StatusFrom(o)
         IN  IF Disabled(ph_status)
             THEN ReturnStep(Get(ph_status, Lit("message"), PolyHavenOff),
                             [l EXCEPT !.status = ph_status])
             ELSE CallStep("download_polyhaven_asset",
                           JObj(<<Pair("asset_id", Arg(a, "asset_id")),
                                  Pair("asset_type", Arg(a, "asset_type")),
                                  Pair("resolution", Arg(a, "resolution"))>>
                                \o Supplied(a, <<"file_format">>)),
                           "call", [l EXCEPT !.status = ph_status])
    ELSE IF o.kind = "exc" THEN Propagate(o, l)
    ELSE IF Has(o.val, Lit("error")) THEN ReturnStep(ErrorOf(o.val), l)
    ELSE IF Truthy(Get(o.val, Lit("success"), JNull))
    THEN LET message == PyStr(Get(o.val, Lit("message"),
                                  Text("Asset downloaded and imported successfully")))
             kind == Arg(a, "asset_type")
         IN  IF IsStr(kind, Lit("hdris"))
             THEN ReturnStep(JStr(message
                     \o Lit(". The HDRI has been set as the world environment.")), l)
             ELSE IF IsStr(kind, Lit("textures"))
             THEN ReturnStep(JStr(message \o Lit(". Created material '")
                     \o PyStr(Get(o.val, Lit("material"), JStr(<<>>)))
                     \o Lit("' with maps: ") \o Joined(o.val, "maps") \o <<".">>), l)
             ELSE IF IsStr(kind, Lit("models"))
             THEN ReturnStep(JStr(message \o Lit(". Imported objects: ")
                     \o Joined(o.val, "imported_objects") \o <<".">>), l)
             ELSE ReturnStep(JStr(message), l)
    ELSE ReturnStep(JStr(Lit("Failed to download asset: ")
                         \o PyStr(Get(o.val, Lit("message"), Text("Unknown error")))), l)

set_texture(pc, a, l, o) ==
    IF pc = "start" THEN CallStep("get_polyhaven_status", JNull, "status", l)
    ELSE IF pc = "status"
    THEN LET ph_status == StatusFrom(o)
         IN  IF Disabled(ph_status)
             THEN ReturnStep(Get(ph_status, Lit("message"), PolyHavenOff),
                             [l EXCEPT !.status = ph_status])
             ELSE CallStep("set_texture",
                           JObj(<<Pair("object_name", Arg(a, "object_name")),
                                  Pair("texture_id", Arg(a, "texture_id"))>>),
                           "call", [l EXCEPT !.status = ph_status])
    ELSE IF o.kind = "exc" THEN Propagate(o, l)
    ELSE IF Has(o.val, Lit("error")) THEN ReturnStep(ErrorOf(o.val), l)
    ELSE IF Truthy(Get(o.val, Lit("success"), JNull))
    THEN ReturnStep(JStr(Lit("Successfully applied texture '")
             \o PyStr(Arg(a, "texture_id")) \o Lit("' to ")
             \o PyStr(Arg(a, "object_name")) \o Lit(" using material '")
             \o PyStr(Get(o.val, Lit("material"), JStr(<<>>)))
             \o Lit("' with maps: ") \o Joined(o.val, "maps") \o <<".">>), l)
    ELSE ReturnStep(JStr(Lit("Failed to apply texture: ")
                         \o PyStr(Get(o.val, Lit("message"), Text("Unknown error")))), l)

\* Variants of the test below, to try the properties against: a failed entry
\* does not end the polling; the status_list shape is not looked at.
PollVerdictNoFailure(status_result) ==
    IF Has(status_result, Lit("status_list"))
    THEN LET statuses == Get(status_result, Lit("status_list"), JNull).v
         IN  IF \A i \in 1..Len(statuses) : IsStr(statuses[i], Lit("Done"))
             THEN "complete"
             ELSE "pending"
    ELSE IF Has(status_result, Lit("status"))
            /\ IsStr(Get(status_result, Lit("status"), JNull), Lit("COMPLETED"))
    THEN "complete"
    ELSE "pending"

PollVerdictStatusOnly(status_result) ==
    IF Has(status_result, Lit("status"))
    THEN LET status == Get(status_result, Lit("status"), JNull)
         IN  IF IsStr(status, Lit("COMPLETED")) THEN "complete"
             ELSE IF ~IsStr(status, Lit("IN_PROGRESS"))
                     /\ ~IsStr(status, Lit("IN_QUEUE"))
             THEN "failed"
             ELSE "pending"
    ELSE "pending"

\* The test of one poll response in generate_3d_model_from_text: "complete"
\* (is_complete = True), "failed" (the return inside the loop) or "pending".
PollVerdict(status_result) ==
    IF Has(status_result, Lit("status_list"))
    THEN LET statuses == Get(status_result, Lit("status_list"), JNull).v
         IN  IF \A i \in 1..Len(statuses) : IsStr(statuses[i], Lit("Done"))
             THEN "complete"
             ELSE IF \E i \in 1..Len(statuses) : IsStr(statuses[i], Lit("Failed"))
             THEN "failed"
             ELSE "pending"
    ELSE IF Has(status_result, Lit("status"))
    THEN LET status == Get(status_result, Lit("status"), JNull)
         IN  IF IsStr(status, Lit("COMPLETED")) THEN "complete"
             ELSE IF ~IsStr(status, Lit("IN_PROGRESS"))
                     /\ ~IsStr(status, Lit("IN_QUEUE"))
             THEN "failed"
             ELSE "pending"
    ELSE "pending"

\* "Error: Job failed with status: {statuses}" / "...{status_result['status']}"
PollFailure(status_result) ==
    JStr(Lit("Error: Job failed with status: ")
         \o (IF Has(status_result, Lit("status_list"))
             THEN PyRepr(Get(status_result, Lit("status_list"), JNull))
             ELSE PyStr(Get(status_result, Lit("status"), JNull))))

\* poll_params of one attempt
PollParams(l) ==
    IF Truthy(l.subscription_key)
    THEN JObj(<<Pair("subscription_key", l.subscription_key)>>)
    ELSE IF Truthy(l.request_id)
    THEN JObj(<<Pair("request_id", l.request_id)>>)
    ELSE EmptyDict

\* import_params
ImportParams(a, l) ==
    JObj(<<Pair("name", Arg(a, "model_name"))>>
         \o (IF Truthy(l.job_id) THEN <<Pair("task_uuid", l.job_id)>>
             ELSE IF Truthy(l.request_id) THEN <<Pair("request_id", l.request_id)>>
             ELSE <<>>))

Hyper3DOff == Text("Hyper3D Rodin integration is not enabled in Blender.")

\* time.sleep(5) between two polls takes time and changes nothing.
generate_3d_model_from_text(pc, a, l, o) ==
    IF pc = "start" THEN CallStep("get_hyper3d_status", JNull, "status", l)
    ELSE IF pc = "status"
    THEN LET h3d_status == StatusFrom(o)
         IN  IF Disabled(h3d_status)
             THEN ReturnStep(Get(h3d_status, Lit("message"), Hyper3DOff),
                             [l EXCEPT !.status = h3d_status])
             ELSE CallStep("create_rodin_job",
                           JObj(<<Pair("text_prompt", Arg(a, "text_prompt")),
                                  Pair("images", JNull),
                                  Pair("bbox_condition", Arg(a, "bbox_condition"))>>),
                           "create", [l EXCEPT !.status = h3d_status])
    ELSE IF o.kind = "exc" THEN Propagate(o, l)
    ELSE IF pc = "create"
    THEN LET job_result == o.val
             ids == IF Has(job_result, Lit("uuid"))
                    THEN [l EXCEPT
                            !.job_id = Get(job_result, Lit("uuid"), JNull),
                            !.subscription_key =
                                Get(Get(job_result, Lit("jobs"), EmptyDict),
                                    Lit("subscription_key"), JNull)]
                    ELSE [l EXCEPT
                            !.request_id = Get(job_result, Lit("request_id"), JNull)]
         IN  IF Has(job_result, Lit("error"))
             THEN ReturnStep(JStr(Lit("Error creating generation job: ")
                                  \o PyStr(Get(job_result, Lit("error"), JNull))), l)
             ELSE IF ~Has(job_result, Lit("uuid"))
                     /\ ~Has(job_result, Lit("request_id"))
             THEN ReturnStep(JStr(Lit("Error: Unexpected job result format: ")
                                  \o PyRepr(job_result)), l)
             ELSE CallStep("poll_rodin_job_status", PollParams(ids), "poll",
                           [ids EXCEPT !.attempt = 0])
    ELSE IF pc = "poll"
    THEN LET verdict == PollVerdict(o.val)
             seen    == [l EXCEPT !.status_result = o.val,
                                  !.is_complete = (verdict = "complete")]
         IN  IF verdict = "failed" THEN ReturnStep(PollFailure(o.val), seen)
             ELSE IF verdict = "complete"
             THEN CallStep("import_generated_asset", ImportParams(a, seen),
                           "import", seen)
             ELSE IF l.attempt + 1 < max_attempts
             THEN CallStep("poll_rodin_job_status", PollParams(seen), "poll",
                           [seen EXCEPT !.attempt = l.attempt + 1])
             ELSE ReturnStep(Text("Error: Job timed out without completion"), seen)
    ELSE IF ~Truthy(Get(o.val, Lit("succeed"), JFalse))
    THEN ReturnStep(JStr(Lit("Error importing generated model: ")
                         \o PyStr(Get(o.val, Lit("error"), Text("Unknown error")))), l)
    ELSE ReturnStep(JStr(Lit("Successfully generated and imported 3D model '")
                         \o PyStr(Arg(a, "model_name"))
                         \o Lit("' based on the text prompt.")), l)

\* ------------------------------------------------------ create_blender_agent

\* available_tools before the integrations are looked at
BaseTools ==
    << "get_scene_info", "get_object_info", "create_object", "modify_object",
       "delete_object", "set_material", "import_model", "execute_blender_code",
       "final_answer" >>

\* The tools added when the PolyHaven status says enabled
PolyHavenAssetTools ==
    << "get_polyhaven_categories", "search_polyhaven_assets",
       "download_polyhaven_asset", "set_texture" >>

\* The list of tool names as a value a call returns
ToolList(names) == JArr([i \in 1..Len(names) |-> Text(names[i])])

\* create_blender_agent from its first status check on, up to the tool list
\* it hands to CodeAgent; l.connected is what blender.connect() returned.
create_blender_agent(pc, a, l, o) ==
    LET hyper3d == CallStep("get_hyper3d_status", JNull, "h3d", l)
    IN  IF pc = "start"
        THEN LET base == [l EXCEPT !.available_tools = BaseTools]
             IN  IF Truthy(Arg(a, "include_polyhaven"))
                 THEN CallStep("get_polyhaven_status", JNull, "ph", base)
                 ELSE IF Truthy(Arg(a, "include_hyper3d"))
                 THEN CallStep("get_hyper3d_status", JNull, "h3d", base)
                 ELSE ReturnStep(ToolList(BaseTools), base)
        ELSE IF pc = "ph"
        THEN LET ph_status == StatusFrom(o)
                 now == [l EXCEPT
                           !.ph_status = ph_status,
                           !.available_tools =
                               @ \o <<"get_polyhaven_status">>
                                 \o (IF Disabled(ph_status) THEN <<>>
                                     ELSE PolyHavenAssetTools)]
             IN  IF Truthy(Arg(a, "include_hyper3d"))
                 THEN CallStep("get_hyper3d_status", JNull, "h3d", now)
                 ELSE ReturnStep(ToolList(now.available_tools), now)
        ELSE LET h3d_status == StatusFrom(o)
                 now == [l EXCEPT
                           !.h3d_status = h3d_status,
                           !.available_tools =
                               @ \o <<"get_hyper3d_status">>
                                 \o (IF Disabled(h3d_status) THEN <<>>
                                     ELSE <<"generate_3d_model_from_text">>)]
             IN  ReturnStep(ToolList(now.available_tools), now)

SimpleTools == {"create_object", "delete_object", "execute_blender_code"}

\* The wrappers run against a peer whose bytes arrive in chunks.
ChunkedTools == {"create_object", "delete_object"}

PolyHavenTools == {"get_polyhaven_categories", "search_polyhaven_assets",
                   "download_polyhaven_asset", "set_texture"}

AllTools == SimpleTools \cup PolyHavenTools \cup {"generate_3d_model_from_text"}

Wrapper(t, pc, a, l, o) ==
    CASE t = "create_object"               -> create_object(pc, a, l, o)
      [] t = "delete_object"               -> delete_object(pc, a, l, o)
      [] t = "execute_blender_code"        -> execute_blender_code(pc, a, l, o)
      [] t = "get_polyhaven_categories"    -> get_polyhaven_categories(pc, a, l, o)
      [] t = "search_polyhaven_assets"     -> search_polyhaven_assets(pc, a, l, o)
      [] t = "download_polyhaven_asset"    -> download_polyhaven_asset(pc, a, l, o)
      [] t = "set_texture"                 -> set_texture(pc, a, l, o)
      [] t = "generate_3d_model_from_text" -> generate_3d_model_from_text(pc, a, l, o)
      [] t = "create_blender_agent"        -> create_blender_agent(pc, a, l, o)

\* The keyword arguments the agent calls a wrapper with.
Arguments(t) ==
    CASE t = "create_object" ->
           JObj(<<Pair("type", Text("CUBE")), Pair("name", Text("Box1"))>>)
      [] t = "delete_object" -> JObj(<<Pair("name", Text("Box1"))>>)
      [] t = "execute_blender_code" -> JObj(<<Pair("code", Text("pass"))>>)
      [] t = "get_polyhaven_categories" -> JObj(<<Pair("asset_type", Text("hdris"))>>)
      [] t = "search_polyhaven_assets" -> JObj(<<Pair("asset_type", Text("all"))>>)
      [] t = "download_polyhaven_asset" ->
           JObj(<<Pair("asset_id", Text("rock")), Pair("asset_type", Text("hdris")),
                  Pair("resolution", Text("1k"))>>)
      [] t = "set_texture" ->
           JObj(<<Pair("object_name", Text("Box1")), Pair("texture_id", Text("rock"))>>)
      [] t = "generate_3d_model_from_text" ->
           JObj(<<Pair("text_prompt", Text("a chair")), Pair("model_name", Text("chair"))>>)

\* The keyword arguments a wrapper is tried with: for create_object also no
\* optional argument at all, and optional arguments given as "" and [].
ArgumentSets(t) ==
    IF t = "create_object"
    THEN { Arguments(t),
           JObj(<<Pair("type", Text("SPHERE"))>>),
           JObj(<<Pair("type", Text("CUBE")), Pair("name", JStr(<<>>)),
                  Pair("location", JArr(<<JNum(<<"1">>), JNum(<<"2">>), JNum(<<"0">>)>>)),
                  Pair("scale", JArr(<<>>))>>) }
    ELSE {Arguments(t)}

\* The wrapper takes step s: it enters send_command, or it ends.
Take(s) ==
    /\ tpc' = s.tpc /\ loc' = s.loc /\ tret' = s.ret
    /\ chunks' = <<>> /\ fresh' = FALSE /\ sends' = 0
    /\ answer' = NoAnswer /\ noisy' = FALSE /\ received' = <<>>
    /\ IF s.go = "call"
       THEN /\ cpc' = "enter" /\ command' = s.cmd /\ request' = <<>>
            /\ outcome' = NoOutcome
            /\ log' = Append(log, s.cmd.type)
       ELSE /\ cpc' = "idle"
            /\ UNCHANGED <<command, request, outcome, log>>
    /\ UNCHANGED <<connVars, prevFault, past, blender_connection>>

\* Wrapper t starts with arguments a and locals l: its first step.
Begin(t, a, l) ==
    /\ tool' = t /\ args' = a
    /\ LET s == Wrapper(t, "start", a, l, NoOutcome)
       IN  /\ tpc' = s.tpc /\ loc' = s.loc /\ tret' = s.ret
           /\ command' = s.cmd
           /\ IF s.go = "call"
              THEN cpc' = "enter" /\ log' = <<s.cmd.type>>
              ELSE cpc' = "idle" /\ log' = <<>>
    /\ outcome' = NoOutcome /\ request' = <<>>
    /\ chunks' = <<>> /\ fresh' = FALSE /\ sends' = 0
    /\ answer' = NoAnswer /\ noisy' = FALSE /\ received' = <<>>
    /\ UNCHANGED <<prevFault, past>>

\* A call that is no wrapper over send_command, or that ends before it: it
\* returns v, or raises.
Finish(t, a, r) ==
    /\ tool' = t /\ args' = a /\ tpc' = "finished" /\ loc' = NoLocals
    /\ tret' = r
    /\ cpc' = "idle" /\ command' = NoCommand /\ log' = <<>>
    /\ outcome' = NoOutcome /\ request' = <<>>
    /\ chunks' = <<>> /\ fresh' = FALSE /\ sends' = 0
    /\ answer' = NoAnswer /\ noisy' = FALSE /\ received' = <<>>
    /\ UNCHANGED prevFault

Between == tpc \in {"idle", "finished"} /\ cpc = "idle"

\* The agent calls wrapper t with the arguments a.  get_blender_connection
\* raises ValueError while no connection is set.
InvokeWith(t, a) ==
    /\ Between
    /\ UNCHANGED <<connVars, blender_connection>>
    /\ IF blender_connection
       THEN Begin(t, a, NoLocals)
       ELSE /\ Finish(t, a, RaiseStep("ValueError",
                                     Lit("Blender connection not initialized"),
                                     NoLocals).ret)
            /\ UNCHANGED past

\* The agent calls wrapper t.
Invoke(t) == InvokeWith(t, Arguments(t))

\* send_command has ended: the wrapper goes on from there.
Resume ==
    /\ cpc = "done" /\ tpc \notin {"idle", "finished"}
    /\ Take(Wrapper(tool, tpc, args, loc, outcome))
    /\ UNCHANGED <<tool, args>>


\* ------------------------------------------- calls outside the wrappers

Value(v) == [kind |-> "ret", etype |-> "", val |-> v]

\* tools.set_blender_connection(BlenderConnection(host, port))
set_blender_connection ==
    /\ Between /\ ~blender_connection
    /\ blender_connection' = TRUE
    /\ UNCHANGED <<connVars, callVars, tool, tpc, args, loc, tret, log>>

\* A variant of connect() without its first two lines, to try the
\* properties against.
OpensAlways(handle) == TRUE

\* connect(), "if self.socket: return True": a socket is opened only when
\* none is cached.
Opens(handle) == handle = 0

\* blender.connect(): True at once when a socket is cached; else a new
\* socket that connects, or does not (self.socket = None, False).
connect ==
    /\ Between /\ blender_connection
    /\ \/ /\ ~Opens(socket)
          /\ UNCHANGED connVars
          /\ Finish("connect", EmptyDict, Value(JTrue))
       \/ /\ Opens(socket)
          /\ ConnectOk
          /\ Finish("connect", EmptyDict, Value(JTrue))
       \/ /\ Opens(socket)
          /\ Forget
          /\ Finish("connect", EmptyDict, Value(JFalse))
    /\ UNCHANGED <<past, blender_connection>>

\* A variant of disconnect with the reset at the end of the try block
\* instead of in a finally clause.
AfterCloseInTry(handle, close_raises) == IF close_raises THEN handle ELSE 0

\* What self.socket is after the try/except/finally of disconnect, when
\* self.socket.close() raises or does not: the finally clause sets None.
AfterClose(handle, close_raises) == 0

\* The body of disconnect().
Disconnecting ==
    IF socket # 0
    THEN \E close_raises \in BOOLEAN :
            IF AfterClose(socket, close_raises) = 0
            THEN /\ Forget
                 /\ past' = [past EXCEPT !.disconnected = TRUE]
            ELSE UNCHANGED <<connVars, past>>
    ELSE UNCHANGED <<connVars, past>>

\* blender.disconnect()
disconnect ==
    /\ Between /\ blender_connection
    /\ Disconnecting
    /\ Finish("disconnect", EmptyDict, Value(JNull))
    /\ UNCHANGED blender_connection

\* shutdown_blender_connection(): the ValueError of get_blender_connection
\* and whatever disconnect raises are caught and logged.
shutdown_blender_connection ==
    /\ Between
    /\ IF blender_connection THEN Disconnecting ELSE UNCHANGED <<connVars, past>>
    /\ Finish("shutdown_blender_connection", EmptyDict, Value(JNull))
    /\ UNCHANGED blender_connection

\* create_blender_agent(include_polyhaven, include_hyper3d) in a process that
\* has no connection yet: a new BlenderConnection is set, blender.connect()
\* succeeds or fails, and the status checks begin.
Bootstrap(include_polyhaven, include_hyper3d) ==
    /\ Between /\ ~blender_connection
    /\ blender_connection' = TRUE
    /\ \E connected \in BOOLEAN :
          /\ IF connected THEN ConnectOk ELSE UNCHANGED connVars
          /\ Begin("create_blender_agent",
                   JObj(<<Pair("include_polyhaven",
                               IF include_polyhaven THEN JTrue ELSE JFalse),
                          Pair("include_hyper3d",
                               IF include_hyper3d THEN JTrue ELSE JFalse)>>),
                   [NoLocals EXCEPT !.connected = connected])
\* ---------------------------------------------------------- specifications

\* The steps of the client: it is single-threaded and always runs on.
Client == Enter \/ Sendall \/ RecvClosed \/ RecvTimeout \/ RecvReset \/ Resume

\* What one sock.recv may return of the bytes in flight.
ChunkSizes == {n \in 1..Len(wire) : n <= buffer_size}

Peer == (\E i \in 1..Len(Catalogue(command.type)) : PeerAnswer(i)) \/ PeerClose

\* The single-call wrappers against a peer whose bytes arrive in chunks of
\* every size.
Next ==
    \/ set_blender_connection
    \/ Between /\ \E t \in ChunkedTools : Invoke(t)
    \/ Client
    \/ \E n \in ChunkSizes : RecvData(n)
    \/ Peer
    \/ PeerNoise

Spec == Init /\ [][Next]_vars

\* The same, the client's steps being taken whenever they stay possible.
FairSpec == Spec /\ WF_vars(Client \/ \E n \in ChunkSizes : RecvData(n))

\* Each wrapper, called once, against a peer whose answers arrive in one
\* piece.
ToolNext ==
    \/ set_blender_connection
    \/ \E include_polyhaven, include_hyper3d \in BOOLEAN :
          Bootstrap(include_polyhaven, include_hyper3d)
    \/ tpc = "idle" /\ \E t \in AllTools : \E a \in ArgumentSets(t) : InvokeWith(t, a)
    \/ Client
    \/ RecvData(Len(wire))
    \/ Peer

ToolSpec == Init /\ [][ToolNext]_vars

\* What one sock.recv returns when the bytes in flight arrive one or two at
\* a time, or all at once: the buffer passes through every prefix of them,
\* those that end inside a two-byte character and those that end after it.
FewOrAll == {n \in {1, 2, Len(wire)} : n >= 1 /\ n <= Len(wire) /\ n <= buffer_size}

\* The calls of BlenderConnection in any order: connect, disconnect,
\* shutdown_blender_connection, and send_command through a wrapper, against
\* a peer whose bytes arrive a few at a time or all at once.
ApiNext ==
    \/ set_blender_connection
    \/ connect
    \/ disconnect
    \/ shutdown_blender_connection
    \/ Between /\ \E t \in ChunkedTools : Invoke(t)
    \/ Client
    \/ \E n \in FewOrAll : RecvData(n)
    \/ Peer

ApiSpec == Init /\ [][ApiNext]_vars

\* ------------------------------------------------------------- properties

\* part occurs in text
Contains(text, part) ==
    \E i \in 1..(Len(text) - Len(part) + 1) :
        SubSeq(text, i, i + Len(part) - 1) = part

\* The commands of one type the wrapper has passed to send_command.
Sent(type) == Cardinality({i \in 1..Len(log) : log[i] = type})

Polls == Sent("poll_rodin_job_status")

Imports == Sent("import_generated_asset")

\* C1: when the send_command call of a wrapper fails, the wrapper ends by
\* returning a string that describes the failure; no exception leaves it.
C1_WrapperReturnsFailureText ==
    (tpc = "finished" /\ outcome.kind = "exc")
        => /\ tret.kind = "ret"
           /\ tret.val.t = "str"
           /\ Contains(tret.val.v, outcome.val.v)

\* C2: after a call that ended on a timeout or a connection error the cached
\* socket is None, and the next call that reaches its send does so on a
\* connection it opened itself.
C2_FaultInvalidatesSocket ==
    /\ (cpc \in {"done", "idle"} /\ outcome.kind = "exc"
            /\ outcome.cause \in FaultCauses) => socket = 0
    /\ (cpc \in {"send", "recv"} /\ prevFault) => (fresh /\ socket = nconn)

\* A call after a failed one has connected anew and waits for its response.
C2_Witness ==
    cpc = "recv" /\ prevFault /\ fresh /\ socket = 2 /\ peerOpen

\* The peer answered the request in progress with the JSON document of a
\* success response, and the call has ended on something other than a
\* timeout or a connection error.
SuccessAnswered ==
    /\ cpc = "done" /\ ~noisy
    /\ answer.val.t = "obj"
    /\ IsStr(Get(answer.val, Lit("status"), JNull), Lit("success"))
    /\ loads(decode(answer.text).s).ok
    /\ outcome.cause \notin FaultCauses

\* C3: a well-formed success response makes send_command return the
\* response's result (an empty dict when it has none), raise nothing, and
\* keep its socket.
C3_SuccessYieldsResult ==
    SuccessAnswered
        => /\ outcome.kind = "ret"
           /\ outcome.val = Get(answer.val, Lit("result"), EmptyDict)
           /\ socket # 0 /\ socket = nconn

\* The wrappers that ask for an integration's status first.
GuardedTools == PolyHavenTools \cup {"generate_3d_model_from_text"}

\* The status call has ended and its answer does not say enabled: it raised,
\* or its result has no true "enabled".
StatusOff ==
    /\ tool \in GuardedTools /\ tpc = "status" /\ cpc = "done"
    /\ \/ outcome.kind = "exc"
       \/ ~Truthy(Get(outcome.val, Lit("enabled"), JFalse))

\* The message of a status answer that does not say enabled.
StatusMessage ==
    IF outcome.kind = "exc" THEN outcome.val
    ELSE Get(outcome.val, Lit("message"),
             IF tool = "generate_3d_model_from_text" THEN Hyper3DOff
             ELSE PolyHavenOff)

\* C4: when the status check of a guarded wrapper does not report the
\* integration enabled (the check failing included), the wrapper's next step
\* is to return the status message, and it sends no further command.
C4_DisabledShortCircuits ==
    [][(StatusOff /\ tpc' # tpc)
          => /\ tpc' = "finished" /\ cpc' = "idle"
             /\ tret'.kind = "ret" /\ tret'.val = StatusMessage
             /\ log' = log /\ Len(log) = 1]_vars

\* A guarded wrapper has returned the message of a status check that failed.
C4_Witness ==
    /\ tool = "generate_3d_model_from_text" /\ tpc = "finished"
    /\ log = <<"get_hyper3d_status">>
    /\ outcome.kind = "exc" /\ tret.kind = "ret" /\ tret.val = outcome.val

\* The shapes of a poll response, as the job's states are named.
StatusList(sr) == Get(sr, Lit("status_list"), JArr(<<>>)).v

AllDone(sr) ==
    /\ Has(sr, Lit("status_list"))
    /\ \A i \in 1..Len(StatusList(sr)) : IsStr(StatusList(sr)[i], Lit("Done"))

AnyFailed(sr) ==
    /\ Has(sr, Lit("status_list"))
    /\ \E i \in 1..Len(StatusList(sr)) : IsStr(StatusList(sr)[i], Lit("Failed"))

SingleStatus(sr, names) ==
    /\ ~Has(sr, Lit("status_list")) /\ Has(sr, Lit("status"))
    /\ \E n \in names : IsStr(Get(sr, Lit("status"), JNull), Lit(n))

JobFailed(sr) ==
    \/ AnyFailed(sr)
    \/ /\ ~Has(sr, Lit("status_list")) /\ Has(sr, Lit("status"))
       /\ ~SingleStatus(sr, {"COMPLETED", "IN_PROGRESS", "IN_QUEUE"})

JobCompleted(sr) == AllDone(sr) \/ SingleStatus(sr, {"COMPLETED"})

TimedOut == tret.kind = "ret" /\ tret.val = Text("Error: Job timed out without completion")

Generating == tool = "generate_3d_model_from_text"

\* C5: the generation wrapper never sends more than 60 polls; when it has
\* ended on a poll whose response, like those before it, is neither complete
\* nor failed, it has sent exactly 60 polls and returns the timeout error
\* without importing; it reports the timeout in no other case.
C5_SixtyPollsThenTimeout ==
    Generating =>
        /\ Polls <= 60
        /\ (tpc = "finished" /\ log # <<>>
               /\ log[Len(log)] = "poll_rodin_job_status"
               /\ outcome.kind = "ret"
               /\ ~JobCompleted(outcome.val) /\ ~JobFailed(outcome.val))
             => (Polls = 60 /\ TimedOut /\ Imports = 0)
        /\ TimedOut => Polls = 60

\* The wrapper has polled 60 times and reported the timeout.
C5_Witness ==
    Generating /\ tpc = "finished" /\ Polls = 60 /\ TimedOut /\ Imports = 0

\* C6: a poll response that carries a "Failed" entry in its status_list, or a
\* single status other than COMPLETED, IN_PROGRESS and IN_QUEUE, ends the
\* wrapper at that attempt with the failure message: no further poll and no
\* import is sent.
C6_FailureStopsPolling ==
    (Generating /\ loc.status_result.t = "obj" /\ JobFailed(loc.status_result))
        => /\ tpc = "finished" /\ cpc = "idle"
           /\ tret.kind = "ret"
           /\ Contains(tret.val.v, Lit("Error: Job failed with status: "))
           /\ Polls = loc.attempt + 1
           /\ log[Len(log)] = "poll_rodin_job_status"
           /\ Imports = 0

\* The second poll found a failed entry and the wrapper ended there.
C6_Witness ==
    /\ Generating /\ tpc = "finished" /\ loc.status_result.t = "obj"
    /\ AnyFailed(loc.status_result) /\ Polls = 2 /\ Imports = 0

\* C7: a poll response whose status_list entries are all "Done", seen at
\* attempt k, ends the polling there: k polls were sent, no timeout is
\* reported, and the import command is sent once, as the last command.
C7_AllDoneImportsOnce ==
    (Generating /\ loc.status_result.t = "obj" /\ AllDone(loc.status_result))
        => /\ tpc \in {"import", "finished"}
           /\ Polls = loc.attempt + 1
           /\ Imports = 1
           /\ log[Len(log)] = "import_generated_asset"
           /\ ~TimedOut

\* The last allowed poll found every entry done and the import was sent.
C7_Witness ==
    /\ Generating /\ tpc = "finished" /\ loc.status_result.t = "obj"
    /\ Has(loc.status_result, Lit("status_list"))
    /\ StatusList(loc.status_result) # <<>>
    /\ AllDone(loc.status_result) /\ Polls = 60 /\ Imports = 1

\* C8: a request is sent only on a socket with no request unanswered; a call
\* sends at most one request and never sends again after a failure; what it
\* returns is the result of the response the peer wrote to that request.
C8_OneRequestOneResponse ==
    /\ cpc = "send" => (outstanding = 0 /\ sends = 0)
    /\ cpc = "recv" => (outstanding = 1 /\ sends = 1)
    /\ sends <= 1
    /\ (cpc = "done" /\ outcome.kind = "ret")
          => /\ sends = 1
             /\ answer.text # <<>>
             /\ loads(decode(received).s).ok
             /\ loads(decode(received).s).v = answer.val
             /\ outcome.val = Get(answer.val, Lit("result"), EmptyDict)

\* A second request is about to be sent on the socket the first one used.
C8_Witness ==
    cpc = "send" /\ ~fresh /\ socket # 0 /\ outstanding = 0 /\ nconn = 1

\* C9: when the peer's answer is the JSON document of an object, then however
\* its bytes are cut into chunks, receive_full_response returns exactly those
\* bytes.
C9_ChunksReassemble ==
    (cpc = "done" /\ ~noisy
        /\ answer.val.t = "obj"
        /\ answer.text \in {Wire(answer.val), WireRaw(answer.val)}
        /\ outcome.cause \notin FaultCauses)
        => received = answer.text

\* C10: every send_command call ends, by a return or by an exception,
\* whatever the peer does.
C10_CallEnds == (cpc \in {"enter", "send", "recv"}) ~> (cpc \in {"done", "idle"})

\* ------------------------------------------------------------ connect once

\* No send_command has raised and disconnect has dropped no socket.
AllSucceeded == ~past.raised /\ ~past.disconnected

\* C11: connect() with a cached socket returns True and opens no connection;
\* as long as every send_command call has succeeded (and nothing was
\* disconnected) at most one connection has been opened, and exactly one
\* once a call has returned.
C11_ConnectOnce ==
    /\ [][(connect /\ socket # 0)
             => (tret'.val = JTrue /\ UNCHANGED connVars)]_vars
    /\ [](AllSucceeded => /\ nconn <= 1
                          /\ past.returned => nconn = 1)

\* connect() was called after a send_command had returned, with the socket
\* still cached: it returned True and the one connection is still the only one.
C11_Witness ==
    /\ tool = "connect" /\ tpc = "finished" /\ tret.val = JTrue
    /\ past.returned /\ AllSucceeded /\ socket = 1 /\ nconn = 1

\* ---------------------------------------------------------- create_object

OptionalKeys == {"name", "location", "rotation", "scale"}

\* The command that was passed to sendall, read back as a JSON document.
SentCommand == loads(decode(request).s).v

\* create_object has sent its command: it is a create_object command whose
\* params hold type and, of the optional keys, exactly those in kept, each
\* with the caller's value.
CreateObjectSends(kept) ==
    LET params == Get(SentCommand, Lit("params"), JNull)
    IN  /\ decode(request).ok /\ loads(decode(request).s).ok
        /\ Len(SentCommand.v) = 2
        /\ Get(SentCommand, Lit("type"), JNull) = Text("create_object")
        /\ params.t = "obj"
        /\ Len(params.v) = 1 + Cardinality(kept)
        /\ Get(params, Lit("type"), JNull) = Arg(args, "type")
        /\ \A k \in kept : Get(params, Lit(k), JNull) = Arg(args, k)

\* send_command has returned a result {name: N} to create_object, and
\* create_object has returned "Created <type> object: N".
CreateObjectNamed ==
    /\ tool = "create_object" /\ tpc = "finished" /\ outcome.kind = "ret"
    /\ outcome.val.t = "obj" /\ Has(outcome.val, Lit("name"))
    /\ Get(outcome.val, Lit("name"), JNull).t = "str"

CreateObjectReturns ==
    CreateObjectNamed
        => /\ tret.kind = "ret"
           /\ tret.val = JStr(Lit("Created ") \o Arg(args, "type").v
                               \o Lit(" object: ")
                               \o Get(outcome.val, Lit("name"), JNull).v)

\* C12 as stated: the params create_object sends hold type plus exactly
\* those of name, location, rotation, scale the caller passed a value for,
\* and with a result {name: N} it returns "Created <type> object: N".
C12_ParamsAsSupplied ==
    /\ (tool = "create_object" /\ request # <<>>)
          => CreateObjectSends({k \in OptionalKeys : Arg(args, k) # JNull})
    /\ CreateObjectReturns

\* C12, amended: the params hold type plus exactly those of name, location,
\* rotation, scale the caller passed a non-empty value for (not None, "" or
\* []), and with a result {name: N} create_object returns
\* "Created <type> object: N".
C12_ParamsIfTruthy ==
    /\ (tool = "create_object" /\ request # <<>>)
          => CreateObjectSends({k \in OptionalKeys : Truthy(Arg(args, k))})
    /\ CreateObjectReturns

\* create_object(type="CUBE", name="", location=[1, 2, 0], scale=[]) has sent
\* {"type": "CUBE", "location": [1, 2, 0]} and returned the created name.
C12_Witness ==
    /\ CreateObjectNamed
    /\ Arg(args, "name") = JStr(<<>>) /\ Has(args, Lit("scale"))
    /\ Len(Get(SentCommand, Lit("params"), JNull).v) = 2
    /\ Has(Get(SentCommand, Lit("params"), JNull), Lit("location"))
    /\ tret.val = JStr(<<"Created ", "CUBE", " object: ", "Box1">>)

\* ----------------------------------------------------- the agent's tools

\* create_blender_agent has built its tool list.
AgentBuilt == tool = "create_blender_agent" /\ tpc = "finished"

\* The names in the list.
Available == {tret.val.v[i].v[1] : i \in 1..Len(tret.val.v)}

IncludePolyHaven == Arg(args, "include_polyhaven") = JTrue

IncludeHyper3D == Arg(args, "include_hyper3d") = JTrue

\* The status the check returned says enabled.
ReportsEnabled(status) == Truthy(Get(status, Lit("enabled"), JFalse))

RemoteDependent == {PolyHavenAssetTools[i] : i \in 1..Len(PolyHavenAssetTools)}
                       \cup {"generate_3d_model_from_text"}

\* The list is built, each tool once: the nine base tools always, a status
\* tool iff its integration is asked for, the tools behind it iff moreover
\* its status reports enabled.
ToolsAsConfigured ==
    /\ tret.kind = "ret"
    /\ Len(tret.val.v) = Cardinality(Available)
    /\ \A i \in 1..Len(BaseTools) : BaseTools[i] \in Available
    /\ Len(BaseTools) = 9
    /\ "get_polyhaven_status" \in Available <=> IncludePolyHaven
    /\ \A i \in 1..Len(PolyHavenAssetTools) :
          PolyHavenAssetTools[i] \in Available
              <=> (IncludePolyHaven /\ ReportsEnabled(loc.ph_status))
    /\ "get_hyper3d_status" \in Available <=> IncludeHyper3D
    /\ "generate_3d_model_from_text" \in Available
          <=> (IncludeHyper3D /\ ReportsEnabled(loc.h3d_status))
    /\ Cardinality(Available \ RemoteDependent)
          = 9 + (IF IncludePolyHaven THEN 1 ELSE 0) + (IF IncludeHyper3D THEN 1 ELSE 0)

\* C13 as stated: the tool list is as configured, and when the initial
\* connect() failed it holds no remote-dependent tool.
C13_NoRemoteToolsAfterFailedConnect ==
    AgentBuilt => /\ ToolsAsConfigured
                  /\ ~loc.connected => Available \cap RemoteDependent = {}

\* C13, amended: the tool list is as configured, and when the initial
\* connect() and every connect retried by the status checks failed it holds
\* no remote-dependent tool.
C13_NoRemoteToolsWhileUnreachable ==
    AgentBuilt => /\ ToolsAsConfigured
                  /\ (~loc.connected /\ nconn = 0)
                        => Available \cap RemoteDependent = {}

\* Both integrations asked for and Blender never reached: the nine base
\* tools and the two status tools.
C13_Witness ==
    /\ AgentBuilt /\ IncludePolyHaven /\ IncludeHyper3D
    /\ ~loc.connected /\ nconn = 0
    /\ Cardinality(Available) = 11
    /\ {"get_polyhaven_status", "get_hyper3d_status"} \subseteq Available

\* --------------------------------------------------- error status responses

\* The call in progress has read, whole, the response the peer wrote to it,
\* a well-formed document whose status is "error", and has ended.
ErrorAnswered ==
    /\ cpc = "done" /\ ~noisy
    /\ answer.val.t = "obj"
    /\ IsStr(Get(answer.val, Lit("status"), JNull), Lit("error"))
    /\ received # <<>> /\ received = answer.text

\* The message of that response.
RemoteMessage ==
    PyStr(Get(answer.val, Lit("message"), JStr(Lit("Unknown error from Blender"))))

\* C14: a complete, well-formed response with status "error" makes
\* send_command raise with the remote message and keep its cached socket.
C14_ErrorStatusKeepsSocket ==
    ErrorAnswered
        => /\ outcome.kind = "exc"
           /\ Contains(outcome.val.v, RemoteMessage)
           /\ socket # 0

\* -------------------------------------------- the handle after each call

\* C15: over connect, send_command and disconnect calls in any order, a
\* send_command call that has raised leaves the cached socket None; one that
\* has returned leaves it set, to the socket the response was read on; and
\* no call ends in the JSONDecodeError handler ("Invalid response from
\* Blender"), the one handler that keeps the socket.
C15_HandleAfterCall ==
    /\ []((cpc = "done" /\ outcome.kind = "exc")
             => /\ socket = 0
                /\ ~Contains(outcome.val.v, Lit("Invalid response from Blender: ")))
    /\ []((cpc = "done" /\ outcome.kind = "ret")
             => (socket # 0 /\ received # <<>>))
    /\ [][(cpc = "recv" /\ cpc' = "done" /\ outcome'.kind = "ret")
             => (socket # 0 /\ socket' = socket)]_vars

\* After an earlier call raised, a call has returned on the second connection.
C15_Witness ==
    cpc = "done" /\ outcome.kind = "ret" /\ past.raised /\ socket = 2

\* ------------------------------------------------ order of a generation job

\* The job result had "uuid".
HadUuid == loc.job_id # JNull

\* A pair whose value is an identifier the job result gave.
Identifies(params, k, id) ==
    /\ Has(params, Lit(k)) /\ Get(params, Lit(k), JNull) = id
    /\ id.t = "str" /\ id.v # <<>>

\* The command in progress is a poll: it carries the identifier of the job
\* that was created and nothing else.
PollIdentifiesJob ==
    /\ Len(command.params.v) = 1
    /\ IF HadUuid
       THEN Identifies(command.params, "subscription_key", loc.subscription_key)
       ELSE Identifies(command.params, "request_id", loc.request_id)

\* The command in progress is the import: it names the job that was created.
ImportIdentifiesJob ==
    IF HadUuid
    THEN Identifies(command.params, "task_uuid", loc.job_id)
    ELSE Identifies(command.params, "request_id", loc.request_id)

\* create_rodin_job once, before every poll and the import; the import once,
\* last, right after a poll.
JobInOrder ==
    /\ Sent("create_rodin_job") <= 1 /\ Imports <= 1
    /\ \A i \in 1..Len(log) :
          log[i] \in {"poll_rodin_job_status", "import_generated_asset"}
              => /\ Sent("create_rodin_job") = 1
                 /\ \E j \in 1..(i - 1) : log[j] = "create_rodin_job"
    /\ \A i \in 1..Len(log) :
          log[i] = "import_generated_asset"
              => /\ i = Len(log) /\ i > 1
                 /\ log[i - 1] = "poll_rodin_job_status"
                 /\ JobCompleted(loc.status_result)

\* C16: inside generate_3d_model_from_text, create_rodin_job is sent once and
\* before any poll; every poll carries the identifier of the created job
\* (subscription_key when the job result had uuid, otherwise request_id);
\* import_generated_asset is sent at most once, only right after a poll
\* whose response reported completion, and names the same job.
C16_JobOrdering ==
    Generating
        => /\ JobInOrder
           /\ command.type = "poll_rodin_job_status" => PollIdentifiesJob
           /\ command.type = "import_generated_asset" => ImportIdentifiesJob

\* --------------------------------------------------- disconnect, shutdown

\* C17: disconnect() returns with the cached socket None whether or not
\* close() raised, and changes nothing when it was None already;
\* shutdown_blender_connection returns, never raises, also when no
\* connection was set; a send_command entered with the socket None, as
\* disconnect leaves it, sends on a connection it has opened itself.
C17_DisconnectDropsSocket ==
    /\ [][disconnect => /\ socket' = 0 /\ tret'.kind = "ret"
                        /\ socket = 0 => UNCHANGED connVars]_vars
    /\ [][shutdown_blender_connection
             => /\ tret'.kind = "ret"
                /\ blender_connection => socket' = 0
                /\ (~blender_connection \/ socket = 0) => UNCHANGED connVars]_vars
    /\ [][(Enter /\ socket = 0 /\ cpc' = "send")
             => (fresh' /\ nconn' = nconn + 1 /\ socket' = nconn')]_vars
    /\ [](cpc \in {"send", "recv"} => socket # 0)

\* After a disconnect, a send_command call has opened the second connection
\* and is about to send on it.
C17_Witness ==
    /\ tool \in ChunkedTools /\ cpc = "send" /\ fresh
    /\ past.disconnected /\ socket = 2 /\ nconn = 2
====
